---- MODULE Spec2Model ----
(***************************************************************************)
(* Model of src/os/haiku.rs of region-rs: the Allocation handle, the       *)
(* page registry ALLPAGES, alloc, alloc_at, protect, QueryIter::new and    *)
(* the Drop of an Allocation, run by several threads against one Haiku     *)
(* team's area table.                                                      *)
(***************************************************************************)
EXTENDS Integers, Sequences, FiniteSets, TLC

\* ------------------------------------------------------------------ bounds
\* Number of client threads.
NumThreads == 2
\* Pages of address space the OS can hand out.
NumPages == 2
\* Areas the OS creates before create_area reports B_NO_MEMORY.
MaxAreas == 2
\* Allocation values of one area that client code holds at a time.
MaxHandles == 2
\* Calls the clients make in one run, lookups (protect, QueryIter::new)
\* apart: those change nothing and are not counted.
MaxCalls == 4
\* Largest native flag word handed to Protection::from_native.
MaxNativeWord == 127

\* --------------------------------------------------------------- constants
B_PAGE_SIZE == 4096
B_OK == 0
B_READ_AREA == 1
B_WRITE_AREA == 2
B_EXECUTE_AREA == 4
\* The error statuses are negative and distinct; the code reads nothing else
\* of their values.
B_NO_MEMORY == -1
B_BAD_VALUE == -2
B_BAD_ADDRESS == -3
B_ANY_ADDRESS == 1
B_EXACT_ADDRESS == 2

Threads == 1..NumThreads
NoThread == 0
NoArea == 0
AreaIds == 1..MaxAreas

\* Page-aligned addresses of the address space (page 0 is never mapped).
PageAddrs == {k * B_PAGE_SIZE : k \in 1..NumPages}
\* Sizes and addresses the clients pass.
Sizes == {0, 1, B_PAGE_SIZE, B_PAGE_SIZE + 1}
AtAddrs == PageAddrs \cup {B_PAGE_SIZE + 1}
\* Minimum sizes the clients pass to QueryIter::new.
QuerySizes == {1, B_PAGE_SIZE + 1}

\* crate::Protection, a bitset over READ, WRITE, EXECUTE.
NONE == {}
READ == {"READ"}
WRITE == {"WRITE"}
EXECUTE == {"EXECUTE"}
READ_WRITE == {"READ", "WRITE"}
Protections == SUBSET {"READ", "WRITE", "EXECUTE"}
\* Protections the clients pass to alloc and protect, and to alloc_at.
Prots == {NONE, READ_WRITE}
AtProts == {READ_WRITE}

\* ------------------------------------------------------- Protection model
RECURSIVE BitAnd(_, _)
BitAnd(x, y) ==
  IF x = 0 \/ y = 0 THEN 0
  ELSE (IF x % 2 = 1 /\ y % 2 = 1 THEN 1 ELSE 0) + 2 * BitAnd(x \div 2, y \div 2)

RECURSIVE BitOr(_, _)
BitOr(x, y) ==
  IF x = 0 THEN y
  ELSE IF y = 0 THEN x
  ELSE (IF x % 2 = 1 \/ y % 2 = 1 THEN 1 ELSE 0) + 2 * BitOr(x \div 2, y \div 2)

\* Faulty variant of FROM_MAPPINGS: the flags of READ and WRITE are swapped.
FROM_MAPPINGS_swapped ==
  << <<B_WRITE_AREA, READ>>, <<B_READ_AREA, WRITE>>, <<B_EXECUTE_AREA, EXECUTE>> >>

FROM_MAPPINGS ==
  << <<B_READ_AREA, READ>>, <<B_WRITE_AREA, WRITE>>, <<B_EXECUTE_AREA, EXECUTE>> >>

TO_MAPPINGS ==
  << <<READ, B_READ_AREA>>, <<WRITE, B_WRITE_AREA>>, <<EXECUTE, B_EXECUTE_AREA>> >>

RECURSIVE from_native_fold(_, _, _)
from_native_fold(protection, i, acc) ==
  IF i > Len(FROM_MAPPINGS) THEN acc
  ELSE LET flag == FROM_MAPPINGS[i][1]
           prot == FROM_MAPPINGS[i][2]
       IN from_native_fold(protection, i + 1,
            IF BitAnd(protection, flag) = flag THEN acc \cup prot ELSE acc)

from_native(protection) == from_native_fold(protection, 1, NONE)

RECURSIVE to_native_fold(_, _, _)
to_native_fold(self, i, acc) ==
  IF i > Len(TO_MAPPINGS) THEN acc
  ELSE LET flag == TO_MAPPINGS[i][1]
           prot == TO_MAPPINGS[i][2]
       IN to_native_fold(self, i + 1,
            IF (self \cap flag) = flag THEN BitOr(acc, prot) ELSE acc)

to_native(self) == to_native_fold(self, 1, 0)

\* ------------------------------------------------------- page arithmetic
page_size == B_PAGE_SIZE

page_floor(address) == (address \div page_size) * page_size

page_ceil(address) == ((address + page_size - 1) \div page_size) * page_size

round_to_page_boundaries(address, size) ==
  IF size = 0
    THEN [ok |-> FALSE, address |-> 0, size |-> 0]
    ELSE [ok |-> TRUE,
          address |-> page_floor(address),
          size |-> page_ceil((address % page_size) + size)]

\* ------------------------------------------------------------------ state
VARIABLES
  areas,            \* the team's area table: areas[id], kept after delete_area
  ALLPAGES,         \* the registry: a set of [key, value] entries
  lockHolder,       \* the thread inside a critical section of ALLPAGES
  poisoned,         \* the Mutex saw a panic while locked
  handles,          \* handles[id]: Allocation values of area id held by clients
  pc,               \* each thread's position
  frame,            \* each thread's locals
  last,             \* what the call that ended in the last step returned
  debug_assertions, \* whether the build checks debug_assert!; "any" until read
  delete_calls,     \* delete_calls[id]: calls of delete_area(id) so far
  protect_calls,    \* calls of set_area_protection so far
  calls,            \* calls the clients have made so far
  qi,               \* the QueryIter that QueryIter::new returned, or NoIter
  conv              \* the last conversion of a Protection: argument and result

vars == <<areas, ALLPAGES, lockHolder, poisoned, handles, pc, frame, last,
          debug_assertions, delete_calls, protect_calls, calls, qi, conv>>

NoFrame == [size |-> 0, address |-> 0, area |-> NoArea,
            a_address |-> 0, a_size |-> 0, s |-> 0]

\* What a call returned: the operation, its result, and whether it locked
\* ALLPAGES on its way.
Ret(op, status, locked) == [op |-> op, status |-> status, locked |-> locked]

\* No call ended in the last step.
NoRet == Ret("none", "none", FALSE)

\* No QueryIter was constructed.
NoIter == [cookie |-> -1]

\* No Protection was converted.
NoConv == [op |-> "none"]

\* ------------------------------------------------------------ the OS side
Span(address, size) == {p \in PageAddrs : address <= p /\ p < address + size}

Mapped(ar) == UNION {Span(ar[i].address, ar[i].size) : i \in {j \in DOMAIN ar : ar[j].live}}

\* The free base addresses that fit size bytes.
FreeBases(ar, size) ==
  {b \in PageAddrs :
     /\ b + size <= (NumPages + 1) * B_PAGE_SIZE
     /\ Span(b, size) \cap Mapped(ar) = {}}

\* create_area: the statuses and addresses the OS may answer with. A status
\* >= B_OK is the new area's id.
create_area(ar, addr_spec, address, size) ==
  LET id == Len(ar) + 1
      fits == IF addr_spec = B_EXACT_ADDRESS
                THEN FreeBases(ar, size) \cap {address}
                ELSE FreeBases(ar, size)
  IN IF size = 0 \/ size % B_PAGE_SIZE # 0
       THEN {[status |-> B_BAD_VALUE, address |-> 0]}
     ELSE IF addr_spec = B_EXACT_ADDRESS /\ address \notin PageAddrs
       THEN {[status |-> B_BAD_ADDRESS, address |-> 0]}
     ELSE IF id > MaxAreas \/ fits = {}
       THEN {[status |-> B_NO_MEMORY, address |-> 0]}
     ELSE {[status |-> id, address |-> b] : b \in fits}

\* get_area_info
get_area_info(ar, id) ==
  IF id \in DOMAIN ar /\ ar[id].live
    THEN [status |-> B_OK, area |-> id, address |-> ar[id].address,
          size |-> ar[id].size, protection |-> ar[id].protection]
    ELSE [status |-> B_BAD_VALUE, area |-> id, address |-> 0, size |-> 0,
          protection |-> 0]

\* delete_area: the area is gone; the table keeps where it was and who made
\* it.
delete_area(ar, id) ==
  IF id \in DOMAIN ar /\ ar[id].live
    THEN [status |-> B_OK,
          areas |-> [ar EXCEPT ![id].live = FALSE, ![id].protection = 0]]
    ELSE [status |-> B_BAD_VALUE, areas |-> ar]

\* set_area_protection
set_area_protection(ar, id, protection) ==
  IF id \in DOMAIN ar /\ ar[id].live
    THEN [status |-> B_OK, areas |-> [ar EXCEPT ![id].protection = protection]]
    ELSE [status |-> B_BAD_VALUE, areas |-> ar]

\* get_next_area_info: the first of the team's areas after the one the
\* cookie stands at, and the cookie moved to it; B_BAD_VALUE after the last.
get_next_area_info(ar, cookie) ==
  LET rest == {i \in DOMAIN ar : i > cookie /\ ar[i].live}
  IN IF rest = {}
       THEN [status |-> B_BAD_VALUE, cookie |-> cookie,
             info |-> [area |-> NoArea, address |-> 0, size |-> 0, protection |-> 0]]
       ELSE LET i == CHOOSE j \in rest : \A k \in rest : j <= k
            IN [status |-> B_OK, cookie |-> i,
                info |-> [area |-> i, address |-> ar[i].address,
                          size |-> ar[i].size, protection |-> ar[i].protection]]

\* ----------------------------------------------------- KeyType and HashMap
\* An Arc allocation gets a heap address no live Arc of the registry has.
FreshArc(h) ==
  CHOOSE i \in 1..(Cardinality(h) + 1) : \A e \in h : e.key.arc # i

KeyType(h, ptr) == [arc |-> FreshArc(h), ptr |-> ptr]

\* impl PartialEq for KeyType
KeyEq(self, other) == self.arc = other.arc

\* HashMap::get: the value stored under a key equal to k, or NoArea.
get(h, k) ==
  IF \E e \in h : KeyEq(e.key, k)
    THEN (CHOOSE e \in h : KeyEq(e.key, k)).value
    ELSE NoArea

\* HashMap::insert: the new map and the value it replaced, if any.
insert(h, k, v) ==
  IF \E e \in h : KeyEq(e.key, k)
    THEN LET e == CHOOSE x \in h : KeyEq(x.key, k)
         IN [map |-> (h \ {e}) \cup {[key |-> e.key, value |-> v]}, old |-> e.value]
    ELSE [map |-> h \cup {[key |-> k, value |-> v]}, old |-> NoArea]

\* HashMap::remove: the new map and the value it removed, if any.
remove(h, k) ==
  IF \E e \in h : KeyEq(e.key, k)
    THEN LET e == CHOOSE x \in h : KeyEq(x.key, k)
         IN [map |-> h \ {e}, old |-> e.value]
    ELSE [map |-> h, old |-> NoArea]

\* --------------------------------------------------------- Allocation
\* Allocation::refresh_info
refresh_info(ar, self) ==
  LET info == get_area_info(ar, self)
  IN IF info.status = B_OK THEN [ok |-> TRUE, info |-> info]
                           ELSE [ok |-> FALSE, info |-> info]

\* Allocation::len
len(ar, self) ==
  LET r == refresh_info(ar, self)
  IN IF r.ok THEN r.info.size ELSE 0

\* Allocation::as_ptr, for an area the OS still knows.
as_ptr(ar, self) == refresh_info(ar, self).info.address

\* The Drop of an Allocation value by a thread that is inside the critical
\* section: its refresh_info decides between the panic of line 217 and the
\* second ALLPAGES.lock() of line 201.
drop_in_lock(ar, self) ==
  IF refresh_info(ar, self).ok THEN "relock" ELSE "panic"

\* The Error a failed create_area is turned into (lines 274-279, 339-344).
classify(status) ==
  IF status = B_BAD_ADDRESS THEN "InvalidParameter"
  ELSE IF status = B_BAD_VALUE THEN "InvalidParameter"
  ELSE IF status = B_NO_MEMORY THEN "SystemCall(OutOfMemory)"
  ELSE "SystemCall(Other)"

\* ------------------------------------------------------------------- Init
Init ==
  /\ areas = <<>>
  /\ ALLPAGES = {}
  /\ lockHolder = NoThread
  /\ poisoned = FALSE
  /\ handles = <<>>
  /\ pc = [t \in Threads |-> "idle"]
  /\ frame = [t \in Threads |-> NoFrame]
  /\ last = NoRet
  /\ debug_assertions = "any"
  /\ delete_calls = <<>>
  /\ protect_calls = 0
  /\ calls = 0
  /\ qi = NoIter
  /\ conv = NoConv

\* Thread t starts a call. Idle threads are interchangeable (an idle thread
\* has no locals), so the call is made by the first of them.
Call(t) ==
  /\ pc[t] = "idle"
  /\ \A u \in Threads : u < t => pc[u] # "idle"
  /\ calls < MaxCalls
  /\ calls' = calls + 1

\* Thread t starts a lookup.
Lookup(t) ==
  /\ pc[t] = "idle"
  /\ \A u \in Threads : u < t => pc[u] # "idle"
  /\ UNCHANGED calls

\* Faulty variant of ALLPAGES_lock: the registry is used without locking it.
ALLPAGES_unlocked(t) == NoThread

\* ALLPAGES.lock() returning Ok: the thread that is inside the critical
\* section from then on.
ALLPAGES_lock(t) == t

\* A thread that locked ALLPAGES leaves its call: by returning, or by a panic
\* that unwinds it.
Leave(t, op, status) ==
  /\ pc' = [pc EXCEPT ![t] = "idle"]
  /\ frame' = [frame EXCEPT ![t] = NoFrame]
  /\ last' = Ret(op, status, TRUE)

\* A panic while the MutexGuard is alive: unwinding drops the guard, which
\* poisons the Mutex and unlocks it.
PanicInLock(t, op) ==
  /\ Leave(t, op, "panic")
  /\ poisoned' = TRUE
  /\ lockHolder' = NoThread

\* A thread locks ALLPAGES a second time: std's Mutex does not return.
Relock(t) ==
  /\ pc' = [pc EXCEPT ![t] = "relock"]
  /\ last' = NoRet
  /\ UNCHANGED <<frame, poisoned, lockHolder>>

\* The end of a statement that dropped the Allocation value old (NoArea: it
\* dropped none) inside the critical section, in a loop that goes on at s.
AfterDropInLock(t, op, old, s) ==
  IF old = NoArea
    THEN /\ frame' = [frame EXCEPT ![t].s = s]
         /\ last' = NoRet
         /\ UNCHANGED <<pc, poisoned, lockHolder>>
  ELSE IF drop_in_lock(areas, old) = "relock"
    THEN Relock(t)
    ELSE PanicInLock(t, op)

\* ------------------------------------------------------------------ alloc
\* Faulty variant of alloc_size: the size is rounded down to a page boundary.
alloc_size_floor(size) == page_floor(size)

\* line 267: the size create_area is asked for.
alloc_size(size) == page_ceil(size)

\* lines 264-286 and 293-302: lock, create_area, Allocation::new,
\* refresh_info.
alloc_locked(t, size, protection) ==
  /\ lockHolder = NoThread
  /\ IF poisoned
       THEN /\ Leave(t, "alloc", "panic")
            /\ UNCHANGED <<areas, handles, delete_calls, lockHolder, poisoned>>
       ELSE \E out \in create_area(areas, B_ANY_ADDRESS, 0, alloc_size(size)) :
              IF out.status < B_OK
                THEN /\ Leave(t, "alloc", classify(out.status))
                     /\ UNCHANGED <<areas, handles, delete_calls, lockHolder, poisoned>>
                ELSE LET inner == out.status
                         made == Append(areas,
                                   [live |-> TRUE, address |-> out.address,
                                    size |-> alloc_size(size),
                                    protection |-> to_native(protection),
                                    by |-> "alloc"])
                         r == refresh_info(made, inner)
                     IN /\ areas' = made
                        /\ handles' = Append(handles, 0)
                        /\ delete_calls' = Append(delete_calls, 0)
                        /\ IF r.ok
                             THEN /\ lockHolder' = ALLPAGES_lock(t)
                                  /\ pc' = [pc EXCEPT ![t] = "alloc_insert"]
                                  /\ frame' = [frame EXCEPT ![t] =
                                       [NoFrame EXCEPT
                                          !.size = size,
                                          !.area = inner,
                                          !.a_address = r.info.address,
                                          !.a_size = r.info.size,
                                          !.s = r.info.size]]
                                  /\ last' = NoRet
                                  /\ UNCHANGED poisoned
                             ELSE \* Err(e) => Err(e): inner is dropped in the lock
                                  IF drop_in_lock(made, inner) = "relock"
                                    THEN /\ lockHolder' = ALLPAGES_lock(t)
                                         /\ pc' = [pc EXCEPT ![t] = "relock"]
                                         /\ last' = NoRet
                                         /\ UNCHANGED <<frame, poisoned>>
                                    ELSE PanicInLock(t, "alloc")

\* Faulty variant of alloc: no size check before the lock.
alloc_unchecked(t, size, protection) ==
  /\ Call(t)
  /\ alloc_locked(t, size, protection)
  /\ UNCHANGED <<ALLPAGES, debug_assertions, protect_calls>>
  /\ UNCHANGED <<qi, conv>>

\* lines 260-264: the size check comes before the lock.
alloc(t, size, protection) ==
  /\ Call(t)
  /\ IF size = 0
       THEN /\ last' = Ret("alloc", "InvalidParameter", FALSE)
            /\ UNCHANGED <<areas, handles, delete_calls, lockHolder, poisoned,
                           pc, frame>>
       ELSE alloc_locked(t, size, protection)
  /\ UNCHANGED <<ALLPAGES, debug_assertions, protect_calls>>
  /\ UNCHANGED <<qi, conv>>

\* lines 287-291: one turn of the registration loop.
alloc_insert(t) ==
  /\ pc[t] = "alloc_insert"
  /\ UNCHANGED calls
  /\ frame[t].s >= B_PAGE_SIZE
  /\ LET s == frame[t].s - B_PAGE_SIZE
         addy == KeyType(ALLPAGES, frame[t].a_address + s)
         r == insert(ALLPAGES, addy, frame[t].area)
     IN /\ ALLPAGES' = r.map
        /\ AfterDropInLock(t, "alloc", r.old, s)
  /\ UNCHANGED <<areas, handles, debug_assertions, delete_calls, protect_calls>>
  /\ UNCHANGED <<qi, conv>>

\* line 292: return Ok(inner); the guard h goes out of scope.
alloc_return(t) ==
  /\ pc[t] = "alloc_insert"
  /\ UNCHANGED calls
  /\ frame[t].s < B_PAGE_SIZE
  /\ lockHolder' = NoThread
  /\ handles' = [handles EXCEPT ![frame[t].area] = 1]
  /\ Leave(t, "alloc", "Ok")
  /\ UNCHANGED <<areas, ALLPAGES, poisoned, debug_assertions, delete_calls,
                 protect_calls>>
  /\ UNCHANGED <<qi, conv>>

\* --------------------------------------------------------------- alloc_at
\* Faulty variant of alloc_at_addr_spec: the OS is left to choose the address.
alloc_at_addr_spec_any == B_ANY_ADDRESS

\* line 337: the address specification alloc_at passes to create_area.
alloc_at_addr_spec == B_EXACT_ADDRESS

\* lines 330-349 and 357-366: lock, round_to_page_boundaries, create_area,
\* Allocation::new, refresh_info.
alloc_at(t, address, size, protection) ==
  /\ Call(t)
  /\ lockHolder = NoThread
  /\ IF poisoned
       THEN /\ Leave(t, "alloc_at", "panic")
            /\ UNCHANGED <<areas, handles, delete_calls, lockHolder, poisoned>>
       ELSE LET rounded == round_to_page_boundaries(address, size)
            IN IF ~rounded.ok
                 THEN /\ Leave(t, "alloc_at", "InvalidParameter")
                      /\ UNCHANGED <<areas, handles, delete_calls, lockHolder, poisoned>>
                 ELSE \E out \in create_area(areas, alloc_at_addr_spec, rounded.address, rounded.size) :
                        IF out.status < B_OK
                          THEN /\ Leave(t, "alloc_at", classify(out.status))
                               /\ UNCHANGED <<areas, handles, delete_calls, lockHolder, poisoned>>
                          ELSE LET inner == out.status
                                   made == Append(areas,
                                             [live |-> TRUE, address |-> out.address,
                                              size |-> rounded.size,
                                              protection |-> to_native(protection),
                                              by |-> "alloc_at"])
                                   r == refresh_info(made, inner)
                               IN /\ areas' = made
                                  /\ handles' = Append(handles, 0)
                                  /\ delete_calls' = Append(delete_calls, 0)
                                  /\ IF r.ok
                                       THEN /\ lockHolder' = ALLPAGES_lock(t)
                                            /\ pc' = [pc EXCEPT ![t] = "alloc_at_insert"]
                                            /\ frame' = [frame EXCEPT ![t] =
                                                 [NoFrame EXCEPT
                                                    !.address = address,
                                                    !.size = size,
                                                    !.area = inner,
                                                    !.a_address = r.info.address,
                                                    !.a_size = r.info.size,
                                                    !.s = r.info.size]]
                                            /\ last' = NoRet
                                            /\ UNCHANGED poisoned
                                       ELSE IF drop_in_lock(made, inner) = "relock"
                                              THEN /\ lockHolder' = ALLPAGES_lock(t)
                                                   /\ pc' = [pc EXCEPT ![t] = "relock"]
                                                   /\ last' = NoRet
                                                   /\ UNCHANGED <<frame, poisoned>>
                                              ELSE PanicInLock(t, "alloc_at")
  /\ UNCHANGED <<ALLPAGES, debug_assertions, protect_calls>>
  /\ UNCHANGED <<qi, conv>>

\* lines 352-356: one turn of the registration loop.
alloc_at_insert(t) ==
  /\ pc[t] = "alloc_at_insert"
  /\ UNCHANGED calls
  /\ frame[t].s >= B_PAGE_SIZE
  /\ LET s == frame[t].s - B_PAGE_SIZE
         addy == KeyType(ALLPAGES, frame[t].a_address + s)
         r == insert(ALLPAGES, addy, frame[t].area)
     IN /\ ALLPAGES' = r.map
        /\ AfterDropInLock(t, "alloc_at", r.old, s)
  /\ UNCHANGED <<areas, handles, debug_assertions, delete_calls, protect_calls>>
  /\ UNCHANGED <<qi, conv>>

\* line 357: Ok(inner); the guard h goes out of scope.
alloc_at_return(t) ==
  /\ pc[t] = "alloc_at_insert"
  /\ UNCHANGED calls
  /\ frame[t].s < B_PAGE_SIZE
  /\ lockHolder' = NoThread
  /\ handles' = [handles EXCEPT ![frame[t].area] = 1]
  /\ Leave(t, "alloc_at", "Ok")
  /\ UNCHANGED <<areas, ALLPAGES, poisoned, debug_assertions, delete_calls,
                 protect_calls>>
  /\ UNCHANGED <<qi, conv>>

\* ------------------------------------------------------------------ Clone
\* #[derive(Clone)], line 23: one more Allocation value of the same Arc.
clone(t, self) ==
  /\ Call(t)
  /\ self \in DOMAIN handles
  /\ handles[self] > 0
  /\ handles[self] < MaxHandles
  /\ handles' = [handles EXCEPT ![self] = @ + 1]
  /\ last' = Ret("clone", "Ok", FALSE)
  /\ UNCHANGED <<areas, ALLPAGES, lockHolder, poisoned, pc, frame,
                 debug_assertions, delete_calls, protect_calls>>
  /\ UNCHANGED <<qi, conv>>

\* ------------------------------------------------------------------- Drop
\* lines 198-200 and 217: a client's Allocation value is dropped; drop
\* starts with refresh_info.
drop(t, self) ==
  /\ Call(t)
  /\ self \in DOMAIN handles
  /\ handles[self] > 0
  /\ handles' = [handles EXCEPT ![self] = @ - 1]
  /\ LET r == refresh_info(areas, self)
     IN IF r.ok
          THEN /\ pc' = [pc EXCEPT ![t] = "drop_lock"]
               /\ frame' = [frame EXCEPT ![t] =
                    [NoFrame EXCEPT !.area = r.info.area,
                                    !.a_address = r.info.address,
                                    !.a_size = r.info.size]]
               /\ last' = NoRet
          ELSE /\ last' = Ret("drop", "panic", FALSE)
               /\ UNCHANGED <<pc, frame>>
  /\ UNCHANGED <<areas, ALLPAGES, lockHolder, poisoned, debug_assertions,
                 delete_calls, protect_calls>>
  /\ UNCHANGED <<qi, conv>>

\* Faulty variant of drop_lock: the removal loop starts one page short.
drop_lock_short(t) ==
  /\ pc[t] = "drop_lock"
  /\ UNCHANGED calls
  /\ lockHolder = NoThread
  /\ IF poisoned
       THEN /\ Leave(t, "drop", "panic")
            /\ UNCHANGED lockHolder
       ELSE /\ lockHolder' = ALLPAGES_lock(t)
            /\ pc' = [pc EXCEPT ![t] = "drop_remove"]
            /\ frame' = [frame EXCEPT ![t].s = frame[t].a_size - B_PAGE_SIZE]
            /\ last' = NoRet
  /\ UNCHANGED <<areas, ALLPAGES, poisoned, handles, debug_assertions,
                 delete_calls, protect_calls>>
  /\ UNCHANGED <<qi, conv>>

\* lines 201-203 and 214
drop_lock(t) ==
  /\ pc[t] = "drop_lock"
  /\ UNCHANGED calls
  /\ lockHolder = NoThread
  /\ IF poisoned
       THEN /\ Leave(t, "drop", "panic")
            /\ UNCHANGED lockHolder
       ELSE /\ lockHolder' = ALLPAGES_lock(t)
            /\ pc' = [pc EXCEPT ![t] = "drop_remove"]
            /\ frame' = [frame EXCEPT ![t].s = frame[t].a_size]
            /\ last' = NoRet
  /\ UNCHANGED <<areas, ALLPAGES, poisoned, handles, debug_assertions,
                 delete_calls, protect_calls>>
  /\ UNCHANGED <<qi, conv>>

\* lines 205-209: one turn of the removal loop.
drop_remove(t) ==
  /\ pc[t] = "drop_remove"
  /\ UNCHANGED calls
  /\ frame[t].s >= B_PAGE_SIZE
  /\ LET s == frame[t].s - B_PAGE_SIZE
         addy == KeyType(ALLPAGES, frame[t].a_address + s)
         r == remove(ALLPAGES, addy)
     IN /\ ALLPAGES' = r.map
        /\ AfterDropInLock(t, "drop", r.old, s)
  /\ UNCHANGED <<areas, handles, debug_assertions, delete_calls, protect_calls>>
  /\ UNCHANGED <<qi, conv>>

\* lines 211-213: delete_area and the debug_assert! on its result. The build
\* is fixed before the run and read only by a debug_assert! whose condition
\* is false: the first such read settles which build this run is of.
drop_delete(t) ==
  /\ pc[t] = "drop_remove"
  /\ UNCHANGED calls
  /\ frame[t].s < B_PAGE_SIZE
  /\ LET result == delete_area(areas, frame[t].area)
     IN /\ areas' = result.areas
        /\ delete_calls' = [delete_calls EXCEPT ![frame[t].area] = @ + 1]
        /\ IF result.status = B_OK
             THEN /\ Leave(t, "drop", "returned")
                  /\ lockHolder' = NoThread
                  /\ UNCHANGED <<poisoned, debug_assertions>>
             ELSE \E build \in (IF debug_assertions = "any"
                                  THEN {"debug", "release"}
                                  ELSE {debug_assertions}) :
                    /\ debug_assertions' = build
                    /\ IF build = "debug"
                         THEN PanicInLock(t, "drop")
                         ELSE /\ Leave(t, "drop", "returned")
                              /\ lockHolder' = NoThread
                              /\ UNCHANGED poisoned
  /\ UNCHANGED <<ALLPAGES, handles, protect_calls>>
  /\ UNCHANGED <<qi, conv>>

\* ---------------------------------------------------------------- protect
\* Faulty variant of protect_locked: a lookup that finds nothing is reported as Ok.
protect_locked_miss_ok(h, ar, base, protection) ==
  LET addy == KeyType(h, base)
      found == get(h, addy)
      r == refresh_info(ar, found)
      set == set_area_protection(ar, r.info.area, to_native(protection))
  IN IF found = NoArea
       THEN [status |-> "Ok", areas |-> ar, native |-> 0]
     ELSE IF ~r.ok
       THEN [status |-> "UnmappedRegion", areas |-> ar, native |-> 0]
     ELSE [status |-> IF set.status < B_OK THEN "InvalidParameter" ELSE "Ok",
           areas |-> set.areas, native |-> 1]

\* lines 78 and 80-92: the lookup and what follows it, inside the lock. The
\* result, the area table after it, and the calls of set_area_protection.
protect_locked(h, ar, base, protection) ==
  LET addy == KeyType(h, base)
      found == get(h, addy)
      r == refresh_info(ar, found)
      set == set_area_protection(ar, r.info.area, to_native(protection))
  IN IF found = NoArea
       THEN [status |-> "UnmappedRegion", areas |-> ar, native |-> 0]
     ELSE IF ~r.ok
       THEN [status |-> "UnmappedRegion", areas |-> ar, native |-> 0]
     ELSE [status |-> IF set.status < B_OK THEN "InvalidParameter" ELSE "Ok",
           areas |-> set.areas, native |-> 1]

\* lines 77-95
protect(t, base, protection) ==
  /\ Lookup(t)
  /\ lockHolder = NoThread
  /\ LET r == IF poisoned
                THEN [status |-> "UnmappedRegion", areas |-> areas, native |-> 0]
                ELSE protect_locked(ALLPAGES, areas, base, protection)
     IN /\ last' = Ret("protect", r.status, TRUE)
        /\ areas' = r.areas
        /\ protect_calls' = protect_calls + r.native
  /\ UNCHANGED <<ALLPAGES, lockHolder, poisoned, handles, pc, frame,
                 debug_assertions, delete_calls>>
  /\ UNCHANGED <<qi, conv>>

\* --------------------------------------------------------- QueryIter::new
\* lines 398-413: the QueryIter that new builds for area id. get_area_info
\* (line 414) is handed a copy of its info, &[qi.info], so the fields of
\* qi.info stay as they are built here.
QueryIter(id) ==
  [cookie |-> 0,
   info |-> [area |-> id, address |-> 0, size |-> 0, protection |-> 0]]

\* lines 389-418; _size is not read.
QueryIter_new(t, origin, _size) ==
  /\ Lookup(t)
  /\ lockHolder = NoThread
  /\ LET addy == KeyType(ALLPAGES, origin)
         id == get(ALLPAGES, addy)
     IN IF poisoned
          THEN last' = Ret("query", "panic", TRUE) /\ UNCHANGED qi
        ELSE IF id = NoArea
          THEN last' = Ret("query", "InvalidParameter", TRUE) /\ UNCHANGED qi
        ELSE IF get_area_info(areas, id).status = B_OK
          THEN last' = Ret("query", "Ok", TRUE) /\ qi' = QueryIter(id)
          ELSE last' = Ret("query", "SystemCall(Other)", TRUE) /\ UNCHANGED qi
  /\ UNCHANGED <<areas, ALLPAGES, lockHolder, poisoned, handles, pc, frame,
                 debug_assertions, delete_calls, protect_calls, conv>>

\* ------------------------------------------------------------------- Next
Next ==
  \/ \E t \in Threads, size \in Sizes, p \in Prots : alloc(t, size, p)
  \/ \E t \in Threads : alloc_insert(t)
  \/ \E t \in Threads : alloc_return(t)
  \/ \E t \in Threads, address \in AtAddrs, size \in Sizes, p \in AtProts :
       alloc_at(t, address, size, p)
  \/ \E t \in Threads : alloc_at_insert(t)
  \/ \E t \in Threads : alloc_at_return(t)
  \/ \E t \in Threads, a \in AreaIds : clone(t, a)
  \/ \E t \in Threads, a \in AreaIds : drop(t, a)
  \/ \E t \in Threads : drop_lock(t)
  \/ \E t \in Threads : drop_remove(t)
  \/ \E t \in Threads : drop_delete(t)
  \/ \E t \in Threads, base \in PageAddrs, p \in Prots : protect(t, base, p)
  \/ \E t \in Threads, origin \in PageAddrs, size \in QuerySizes :
       QueryIter_new(t, origin, size)

Spec == Init /\ [][Next]_vars

\* ------------------------------------- an area deleted by other code
\* lines 264-284 and 294, when other code of the team calls delete_area on
\* the area create_area has just made, before refresh_info (line 284) asks
\* for it: refresh_info fails, the arm Err(e) => Err(e) is taken, and inner
\* goes out of scope while the guard h is alive.
alloc_lost(t, size, protection) ==
  /\ Call(t)
  /\ size # 0
  /\ lockHolder = NoThread
  /\ ~poisoned
  /\ \E out \in create_area(areas, B_ANY_ADDRESS, 0, alloc_size(size)) :
       /\ out.status >= B_OK
       /\ LET inner == out.status
              made == Append(areas,
                        [live |-> TRUE, address |-> out.address,
                         size |-> alloc_size(size),
                         protection |-> to_native(protection),
                         by |-> "alloc"])
              gone == delete_area(made, inner).areas
          IN /\ ~refresh_info(gone, inner).ok
             /\ areas' = gone
             /\ handles' = Append(handles, 0)
             /\ delete_calls' = Append(delete_calls, 0)
             /\ lockHolder' = ALLPAGES_lock(t)
             /\ pc' = [pc EXCEPT ![t] = "alloc_drop"]
             /\ frame' = [frame EXCEPT ![t] =
                  [NoFrame EXCEPT !.size = size, !.area = inner]]
             /\ last' = NoRet
  /\ UNCHANGED <<ALLPAGES, poisoned, debug_assertions, protect_calls, qi, conv>>

\* lines 331-348 and 359, in the same situation.
alloc_at_lost(t, address, size, protection) ==
  /\ Call(t)
  /\ lockHolder = NoThread
  /\ ~poisoned
  /\ LET rounded == round_to_page_boundaries(address, size)
     IN /\ rounded.ok
        /\ \E out \in create_area(areas, alloc_at_addr_spec, rounded.address, rounded.size) :
             /\ out.status >= B_OK
             /\ LET inner == out.status
                    made == Append(areas,
                              [live |-> TRUE, address |-> out.address,
                               size |-> rounded.size,
                               protection |-> to_native(protection),
                               by |-> "alloc_at"])
                    gone == delete_area(made, inner).areas
                IN /\ ~refresh_info(gone, inner).ok
                   /\ areas' = gone
                   /\ handles' = Append(handles, 0)
                   /\ delete_calls' = Append(delete_calls, 0)
                   /\ lockHolder' = ALLPAGES_lock(t)
                   /\ pc' = [pc EXCEPT ![t] = "alloc_at_drop"]
                   /\ frame' = [frame EXCEPT ![t] =
                        [NoFrame EXCEPT !.address = address, !.size = size,
                                        !.area = inner]]
                   /\ last' = NoRet
  /\ UNCHANGED <<ALLPAGES, poisoned, debug_assertions, protect_calls, qi, conv>>

\* lines 198-217, run for inner at the end of the arm Ok(inner) (lines 296,
\* 360) by the thread that holds the guard: refresh_info, then the panic of
\* line 217 or the second ALLPAGES.lock() of line 201.
drop_inner(t) ==
  /\ pc[t] \in {"alloc_drop", "alloc_at_drop"}
  /\ LET op == IF pc[t] = "alloc_drop" THEN "alloc" ELSE "alloc_at"
     IN IF drop_in_lock(areas, frame[t].area) = "relock"
          THEN Relock(t)
          ELSE PanicInLock(t, op)
  /\ UNCHANGED <<areas, ALLPAGES, handles, debug_assertions, delete_calls,
                 protect_calls, calls, qi, conv>>

NextEnv ==
  \/ Next
  \/ \E t \in Threads, size \in Sizes, p \in Prots : alloc_lost(t, size, p)
  \/ \E t \in Threads, address \in AtAddrs, size \in Sizes, p \in AtProts :
       alloc_at_lost(t, address, size, p)
  \/ \E t \in Threads : drop_inner(t)

SpecEnv == Init /\ [][NextEnv]_vars

\* -------------------------------------------------------- QueryIter::next
\* lines 436-441: the Region built from self.info.
Region(info) ==
  [base |-> info.address,
   protection |-> from_native(info.protection),
   size |-> info.size]

\* lines 429-442. get_next_area_info is handed &[self.cookie] and
\* &[self.info]: arrays built for the call that hold copies of the two
\* fields. The OS writes the copies; self.cookie and self.info keep their
\* values.
QueryIter_next(t) ==
  /\ Call(t)
  /\ qi # NoIter
  /\ LET status == get_next_area_info(areas, qi.cookie).status
     IN last' = IF status # B_OK
                  THEN [op |-> "next", status |-> "None", locked |-> FALSE]
                  ELSE [op |-> "next", status |-> "Some", locked |-> FALSE,
                        region |-> Region(qi.info)]
  /\ qi' = qi
  /\ UNCHANGED <<areas, ALLPAGES, lockHolder, poisoned, handles, pc, frame,
                 debug_assertions, delete_calls, protect_calls, conv>>

\* The areas a team has when a QueryIter is made: made by any code of the
\* team, side by side in the address space.
TeamAreas ==
  {ar \in UNION {[1..n -> [live : {TRUE}, address : PageAddrs,
                           size : {B_PAGE_SIZE, 2 * B_PAGE_SIZE},
                           protection : {to_native(NONE), to_native(READ),
                                         to_native(READ_WRITE)},
                           by : {"team"}]] : n \in 0..MaxAreas} :
     /\ \A i \in DOMAIN ar : ar[i].address + ar[i].size <= (NumPages + 1) * B_PAGE_SIZE
     /\ \A i, j \in DOMAIN ar :
          i # j => Span(ar[i].address, ar[i].size) \cap Span(ar[j].address, ar[j].size) = {}}

\* QueryIter::next is applied to the QueryIter value that the arm B_OK of
\* QueryIter::new (line 415) returns for area id, in a team with any areas.
IterInit ==
  /\ areas \in TeamAreas
  /\ ALLPAGES = {}
  /\ lockHolder = NoThread
  /\ poisoned = FALSE
  /\ handles = [a \in DOMAIN areas |-> 0]
  /\ pc = [t \in Threads |-> "idle"]
  /\ frame = [t \in Threads |-> NoFrame]
  /\ last = NoRet
  /\ debug_assertions = "any"
  /\ delete_calls = [a \in DOMAIN areas |-> 0]
  /\ protect_calls = 0
  /\ calls = 0
  /\ qi \in {QueryIter(id) : id \in DOMAIN areas}
  /\ conv = NoConv

IterNext == \E t \in Threads : QueryIter_next(t)

IterSpec == IterInit /\ [][IterNext]_vars

\* ---------------------------------------------- Protection conversions
\* The native flag words from_native is applied to.
NativeWords == 0..MaxNativeWord

\* Everything but conv.
libvars == <<areas, ALLPAGES, lockHolder, poisoned, handles, pc, frame, last,
             debug_assertions, delete_calls, protect_calls, calls, qi>>

\* lines 63-74, applied to self.
Protection_to_native(self) ==
  /\ conv' = [op |-> "to_native", arg |-> self, result |-> to_native(self)]
  /\ UNCHANGED libvars

\* lines 50-61, applied to a flag word.
Protection_from_native(protection) ==
  /\ conv' = [op |-> "from_native", arg |-> protection,
              result |-> from_native(protection)]
  /\ UNCHANGED libvars

\* lines 50-61, applied to what to_native returned.
Protection_round_trip ==
  /\ conv.op = "to_native"
  /\ conv' = [op |-> "round_trip", arg |-> conv.arg,
              result |-> from_native(conv.result)]
  /\ UNCHANGED libvars

ProtNext ==
  \/ \E self \in Protections : Protection_to_native(self)
  \/ \E protection \in NativeWords : Protection_from_native(protection)
  \/ Protection_round_trip

ProtSpec == Init /\ [][ProtNext]_vars

\* ----------------------------------------------------------------- claims
\* The registry's entries that hold a clone of area a's Allocation.
RegistryRefs(a) == {e \in ALLPAGES : e.value = a}

\* The page addresses registered for area a.
PagesOf(a) == {e.key.ptr : e \in RegistryRefs(a)}

\* The registry's entries for page address p.
EntriesAt(p) == {e \in ALLPAGES : e.key.ptr = p}

\* Area a came from alloc or alloc_at, is mapped, and a client holds a handle
\* of it.
Alive(a) == areas[a].live /\ handles[a] > 0

\* addr is the base of an area that alloc made and that was deleted, and no
\* area is mapped there now.
DroppedBase(addr) ==
  /\ addr \notin Mapped(areas)
  /\ \E a \in DOMAIN areas :
       ~areas[a].live /\ areas[a].address = addr /\ areas[a].by = "alloc"

\* C1: delete_area is invoked on an area exactly once and only when the
\* last handle of it is dropped: once it was invoked, no other handle of the
\* area is left, neither with a client nor in the registry.
C1_ReleasedOnceByLastHandle ==
  \A a \in DOMAIN areas :
    delete_calls[a] > 0 =>
      /\ delete_calls[a] = 1
      /\ handles[a] = 0
      /\ RegistryRefs(a) = {}

\* C2: whenever no thread holds the registry lock, no entry of the registry
\* refers to an area that was deleted.
C2_NoEntryOfDeletedArea ==
  lockHolder = NoThread => \A e \in ALLPAGES : areas[e.value].live

\* C3: keys compare by address: while a handle of area a is alive, a lookup
\* with a freshly built key for any page address in a's span finds a.
C3_FreshKeyFindsOwner ==
  \A a \in DOMAIN areas :
    (lockHolder = NoThread /\ Alive(a)) =>
      \A p \in Span(areas[a].address, areas[a].size) :
        get(ALLPAGES, KeyType(ALLPAGES, p)) = a

\* C4: whenever no thread holds the registry lock, the registry holds
\* exactly one entry for each page address that is reserved and none for any
\* other page address.
C4_OneEntryPerReservedPage ==
  lockHolder = NoThread =>
    \A p \in PageAddrs :
      Cardinality(EntriesAt(p)) = IF p \in Mapped(areas) THEN 1 ELSE 0

\* C5: a lookup runs only while no other thread is inside the critical
\* section, and then every allocation has all of its pages registered or
\* none of them.
C5_AllOrNothingRegistered ==
  lockHolder = NoThread =>
    \A a \in DOMAIN areas :
      \/ PagesOf(a) = {}
      \/ PagesOf(a) = Span(areas[a].address, areas[a].size)

\* C5's case: a lookup has just run while an allocation of two pages is
\* registered.
C5_Witness ==
  /\ lockHolder = NoThread
  /\ last.op \in {"protect", "query"}
  /\ \E a \in DOMAIN areas : Cardinality(PagesOf(a)) = 2

\* C6: a query at the base of an area that alloc made and whose handle was
\* dropped fails with UnmappedRegion.
C6_QueryAfterDropIsUnmapped ==
  [][\A t \in Threads, origin \in PageAddrs, size \in QuerySizes :
       (QueryIter_new(t, origin, size) /\ ~poisoned /\ DroppedBase(origin))
         => last'.status = "UnmappedRegion"]_vars

\* C7: while a handle from alloc(n, READ_WRITE) is alive, a query at its
\* base succeeds.
C7_QueryOfLiveAllocationSucceeds ==
  [][\A t \in Threads, origin \in PageAddrs, size \in QuerySizes :
       (/\ QueryIter_new(t, origin, size)
        /\ ~poisoned
        /\ \E a \in DOMAIN areas :
             /\ Alive(a)
             /\ areas[a].by = "alloc"
             /\ from_native(areas[a].protection) = READ_WRITE
             /\ as_ptr(areas, a) = origin)
         => last'.status = "Ok"]_vars

\* C8: protect on an address that has no registry entry fails with
\* UnmappedRegion, does not call set_area_protection, and leaves the
\* registry and the areas as they were.
C8_ProtectOfUnregisteredAddress ==
  [][\A t \in Threads, base \in PageAddrs, p \in Prots :
       (last'.op = "protect" /\ protect(t, base, p) /\ EntriesAt(base) = {})
         => /\ last' = Ret("protect", "UnmappedRegion", TRUE)
            /\ protect_calls' = protect_calls
            /\ ALLPAGES' = ALLPAGES
            /\ areas' = areas]_vars

\* C8's case: protect has just failed with UnmappedRegion while the registry
\* holds no entry at all, so the address it was given had none.
C8_Witness ==
  /\ last = Ret("protect", "UnmappedRegion", TRUE)
  /\ ALLPAGES = {}
  /\ ~poisoned

\* C9: when alloc(size, p) returns Ok, the handle's len() is a multiple of
\* the page size and at least size.
C9_LenIsPageMultipleAndCoversSize ==
  [][\A t \in Threads :
       alloc_return(t)
         => /\ len(areas', frame[t].area) % page_size = 0
            /\ len(areas', frame[t].area) >= frame[t].size]_vars

\* C9's case: alloc has just returned a handle of an area of two pages.
C9_Witness ==
  /\ last = Ret("alloc", "Ok", TRUE)
  /\ \E a \in DOMAIN areas :
       /\ areas[a].by = "alloc"
       /\ handles[a] = 1
       /\ len(areas, a) = 2 * page_size

\* C10: alloc(0, p) fails with InvalidParameter in every state, without
\* locking the registry, reserving anything or changing the registry.
C10_AllocOfZeroIsRejected ==
  [][\A t \in Threads, p \in Prots :
       alloc(t, 0, p)
         => /\ last' = Ret("alloc", "InvalidParameter", FALSE)
            /\ UNCHANGED <<areas, ALLPAGES, lockHolder, poisoned, handles,
                           pc, frame, delete_calls>>]_vars

\* C10's case: alloc(0, p) has just been rejected while another thread is
\* inside the critical section of the registry.
C10_Witness ==
  /\ last = Ret("alloc", "InvalidParameter", FALSE)
  /\ lockHolder # NoThread

\* addr is the page that an alloc of one page reserved and whose handle was
\* dropped, and no area is mapped there now.
DroppedPage(addr) ==
  /\ addr \notin Mapped(areas)
  /\ \E a \in DOMAIN areas :
       /\ ~areas[a].live
       /\ areas[a].by = "alloc"
       /\ areas[a].address = addr
       /\ areas[a].size = page_size

\* C11: alloc_at(base, 1, p) at the base of an area that alloc(1, _) made
\* and that was dropped succeeds, and the handle it returns has the requested
\* (page-rounded) address as its base. The lock is not poisoned and the OS
\* has an area left to give.
C11_AllocAtDroppedBaseSucceeds ==
  [][\A t \in Threads :
       /\ \A address \in AtAddrs, p \in AtProts :
            (/\ calls' # calls
             /\ pc'[t] # pc[t] \/ last'.op = "alloc_at"
             /\ ~poisoned
             /\ Len(areas) < MaxAreas
             /\ DroppedPage(page_floor(address))
             /\ alloc_at(t, address, 1, p))
              => /\ pc'[t] = "alloc_at_insert"
                 /\ frame'[t].a_address = page_floor(address)
       /\ (pc[t] = "alloc_at_insert" /\ pc'[t] # "alloc_at_insert")
            => /\ last' = Ret("alloc_at", "Ok", TRUE)
               /\ handles'[frame[t].area] = 1
               /\ as_ptr(areas', frame[t].area) = page_floor(frame[t].address)]_vars

\* C11's case: alloc_at has just returned the handle of a one-page area at
\* the address of a one-page area that alloc made and that was dropped.
C11_Witness ==
  /\ last = Ret("alloc_at", "Ok", TRUE)
  /\ areas # <<>>
  /\ LET a == Len(areas)
     IN /\ areas[a].by = "alloc_at"
        /\ areas[a].live
        /\ handles[a] = 1
        /\ areas[a].size = page_size
        /\ \E b \in DOMAIN areas :
             /\ ~areas[b].live
             /\ areas[b].by = "alloc"
             /\ delete_calls[b] = 1
             /\ areas[b].address = areas[a].address
             /\ areas[b].size = page_size

\* The Protection bits whose native flag is set in the flag word n, read off
\* n's binary digits.
FlagsSetIn(n) ==
  (IF (n \div B_READ_AREA) % 2 = 1 THEN READ ELSE NONE)
    \cup (IF (n \div B_WRITE_AREA) % 2 = 1 THEN WRITE ELSE NONE)
    \cup (IF (n \div B_EXECUTE_AREA) % 2 = 1 THEN EXECUTE ELSE NONE)

\* C12: from_native(p.to_native()) = p for each of the 8 Protection values,
\* and from_native of a flag word is the union of the Protection bits whose
\* native flag is set in it, whatever its other bits are.
C12_ProtectionRoundTrip ==
  /\ conv.op = "round_trip" => conv.result = conv.arg
  /\ conv.op = "from_native" => conv.result = FlagsSetIn(conv.arg)

\* C12's case: READ | WRITE | EXECUTE went through to_native and back.
C12_Witness ==
  /\ conv.op = "round_trip"
  /\ conv.arg = READ \cup WRITE \cup EXECUTE
  /\ conv.result = conv.arg

\* C13: once the registry mutex is poisoned, every call that gets as far as
\* ALLPAGES.lock() (alloc, alloc_at, protect, QueryIter::new, the drop of a
\* handle) ends in a panic; none returns Ok or Err to its caller.
C13_PoisonedLockIsFatal ==
  [][(poisoned /\ last'.locked) => last'.status = "panic"]_vars

\* The error values alloc and alloc_at return to their caller.
ClassifiedErrors ==
  {"InvalidParameter", "SystemCall(OutOfMemory)", "SystemCall(Other)",
   "UnmappedRegion"}

\* C14: when alloc or alloc_at fails after the lock was taken without being
\* poisoned (create_area answered with an error, or the refresh_info after
\* it failed), the call returns one of the error values, it does not panic,
\* and the registry is as it was.
C14_FailedAllocReturnsError ==
  [][(/\ ~poisoned
      /\ last'.op \in {"alloc", "alloc_at"}
      /\ last'.locked
      /\ last'.status # "Ok")
       => /\ last'.status \in ClassifiedErrors
          /\ ALLPAGES' = ALLPAGES]_vars

\* The areas of the team.
LiveAreas == {a \in DOMAIN areas : areas[a].live}

C16_QueryValidatesMinSize ==
  [][\A t \in Threads, origin \in PageAddrs, size \in QuerySizes :
       (QueryIter_new(t, origin, size) /\ ~poisoned)
         => /\ last'.status = "Ok"
                 => \E a \in LiveAreas :
                      /\ origin \in Span(areas[a].address, areas[a].size)
                      /\ areas[a].size >= size
            /\ (\E a \in LiveAreas :
                   /\ origin \in PagesOf(a)
                   /\ origin \in Span(areas[a].address, areas[a].size)
                   /\ areas[a].size < size)
                 => last'.status = "UnmappedRegion"]_vars

\* C17: when the drop of a handle got past refresh_info and the OS rejects
\* delete_area, the drop ends in a panic, whatever the build.
C17_RejectedDeleteIsFatal ==
  [][\A t \in Threads :
       (drop_delete(t) /\ delete_area(areas, frame[t].area).status # B_OK)
         => last'.status = "panic"]_vars

\* C18: once the threads' calls have returned, the handles that alloc
\* returned and that are alive have no page in common, and a lookup of any
\* of their pages finds its handle.
C18_ConcurrentAllocsAreLookupable ==
  (\A t \in Threads : pc[t] = "idle") =>
    \A a, b \in DOMAIN areas :
      (/\ a # b
       /\ Alive(a) /\ areas[a].by = "alloc"
       /\ Alive(b) /\ areas[b].by = "alloc")
        => /\ Span(areas[a].address, areas[a].size)
                \cap Span(areas[b].address, areas[b].size) = {}
           /\ \A p \in Span(areas[a].address, areas[a].size) :
                get(ALLPAGES, KeyType(ALLPAGES, p)) = a

\* The n page addresses from b on.
PagesFrom(b, n) == {b + k * page_size : k \in 0..(n - 1)}

\* The positions of a thread inside one of the three page loops.
InLoop == {"alloc_insert", "alloc_at_insert", "drop_remove"}

\* C19: for an area of n pages at b, the registration loops of alloc and
\* alloc_at and the removal loop of drop start at the area's end, step back
\* one page a turn and stop at b: they visit b + k * page_size for each
\* k < n once. Each turn of a registration loop adds the one entry of the
\* page it visits, and what is registered at the end is what drop visits.
C19_LoopsVisitEveryPageOnce ==
  [][\A t \in Threads :
       LET a == frame[t].area
           entered == frame'[t].area
           b == frame[t].a_address
           n == frame[t].a_size \div page_size
       IN /\ (pc[t] \notin InLoop /\ pc'[t] \in InLoop)
               => /\ frame'[t].a_address = areas'[entered].address
                  /\ frame'[t].a_size = areas'[entered].size
                  /\ frame'[t].s = areas'[entered].size
                  /\ frame'[t].s % page_size = 0
                  /\ frame'[t].s >= page_size
          /\ (pc[t] \in InLoop /\ pc'[t] = pc[t] /\ frame'[t] # frame[t])
               => /\ frame'[t].s = frame[t].s - page_size
                  /\ frame'[t].s >= 0
                  /\ pc[t] # "drop_remove"
                       => /\ b + frame'[t].s \notin PagesOf(a)
                          /\ PagesOf(a)' = PagesOf(a) \cup {b + frame'[t].s}
                          /\ Cardinality(ALLPAGES') = Cardinality(ALLPAGES) + 1
          /\ (pc[t] \in InLoop /\ pc'[t] \notin InLoop)
               => /\ frame[t].s = 0
                  /\ PagesOf(a) = PagesFrom(b, n)
                  /\ Cardinality(RegistryRefs(a)) = n]_vars

\* C19's case: the drop of a handle of a two-page area has walked its loop
\* and returned.
C19_Witness ==
  /\ last = Ret("drop", "returned", TRUE)
  /\ \E a \in DOMAIN areas :
       /\ ~areas[a].live
       /\ delete_calls[a] = 1
       /\ areas[a].size = 2 * page_size
       /\ PagesOf(a) = PagesFrom(areas[a].address, 2)

\* C20: no thread is at the drop of an Allocation value, or at a second
\* ALLPAGES.lock(), while it is inside the critical section.
C20_NoDropInsideCriticalSection ==
  \A t \in Threads :
    lockHolder = t => pc[t] \notin {"alloc_drop", "alloc_at_drop", "relock"}

====
